---- MODULE Spec2Model ----
(***************************************************************************)
(* rake-pos: keyword extraction (RAKE) with part-of-speech post-filtering. *)
(*                                                                         *)
(* The repository holds three copies of extractWithRakePos:                 *)
(*   impl = "part_001" : src/unnamed/part_001 (filter chain,               *)
(*                       generateScoredPhrases, Array.sort ranker)         *)
(*   impl = "index"    : src/src/index.ts lines 1-195 (splitSentences,     *)
(*                       generateCandidateKeywords, calculateWordScores,   *)
(*                       generateCandidateKeywordScores, lodash ranker)    *)
(*   impl = "index2"   : src/src/index.ts lines 197-421 (the filter chain  *)
(*                       in front of calculateWordScores and the lodash    *)
(*                       ranker)                                           *)
(*                                                                         *)
(* A string is a sequence of one-character strings.  A call draws its      *)
(* arguments in Init; each statement of extractWithRakePos is one action.  *)
(*                                                                         *)
(*   Spec            : one call, any of the three copies                   *)
(*   SpecFilters     : one call, on texts that exercise the filters        *)
(*   SpecScoring     : generateScoredPhrases on any phrase list            *)
(*   SpecSequence    : the calls of one realm, one after the other         *)
(*   SpecInterleaved : the calls of one realm, statements interleaved      *)
(*   SpecMaxWords    : createMaxWordsLengthFilter on any candidate list    *)
(***************************************************************************)
EXTENDS Integers, Sequences, FiniteSets, TLC

VARIABLES
    impl,                \* which implementation runs the call
    args,                \* the caller's argument object
    pc,                  \* position inside extractWithRakePos
    combinedStopWordSet, \* const combinedStopWordSet
    phraseList,          \* const phraseList
    phrases,             \* const {phrases} / keywordCandidates, in key insertion order
    keywords,            \* the word statistics built beside phrases
    keywordsList,        \* the ranked phrase strings
    result,              \* the returned array
    threw,               \* TRUE when the call ended with a TypeError
    objectPrototype,     \* Object.prototype: the properties every {} inherits
    calls                \* the calls of one realm: call id -> its local variables

vars == <<impl, args, pc, combinedStopWordSet, phraseList, phrases, keywords,
          keywordsList, result, threw, objectPrototype, calls>>

----------------------------------------------------------------------------
(* Bounds of the model *)

\* longest text, counted in vocabulary tokens
MaxTokens == 3

----------------------------------------------------------------------------
(* Characters *)

LowerLetters == {"a", "b", "c", "e", "f", "n", "o", "p", "q", "r", "t", "u", "y"}
UpperLetters == {"A", "B", "C", "T"}
Letters == LowerLetters \cup UpperLetters
Digits == {"2"}
Whitespace == {" "}
Chars == Letters \cup Digits \cup Whitespace \cup {".", "_"}

\* String.prototype.toLowerCase, on one character (the upper case letters
\* are an excerpt: every other character is its own lower case)
LowerChar(c) ==
    CASE c = "A" -> "a" [] c = "B" -> "b" [] c = "C" -> "c" [] c = "T" -> "t"
      [] OTHER -> c

toLowerCase(s) == [i \in 1..Len(s) |-> LowerChar(s[i])]

\* String.prototype.trim
RECURSIVE trimStart(_)
trimStart(s) ==
    IF s # <<>> /\ Head(s) \in Whitespace THEN trimStart(Tail(s)) ELSE s

RECURSIVE trimEnd(_)
trimEnd(s) ==
    IF s # <<>> /\ s[Len(s)] \in Whitespace
    THEN trimEnd(SubSeq(s, 1, Len(s) - 1))
    ELSE s

trim(s) == trimEnd(trimStart(s))

\* String.prototype.split on a one-character delimiter class: the pieces
\* between delimiters, empty pieces included ("" splits to [""]).
RECURSIVE SplitAcc(_, _, _, _)
SplitAcc(s, delims, i, cur) ==
    IF i > Len(s) THEN <<cur>>
    ELSE IF s[i] \in delims
         THEN <<cur>> \o SplitAcc(s, delims, i + 1, <<>>)
         ELSE SplitAcc(s, delims, i + 1, Append(cur, s[i]))

split(s, delims) == SplitAcc(s, delims, 1, <<>>)

\* Array.prototype.join
RECURSIVE join(_, _)
join(pieces, sep) ==
    IF pieces = <<>> THEN <<>>
    ELSE IF Len(pieces) = 1 THEN pieces[1]
    ELSE pieces[1] \o sep \o join(Tail(pieces), sep)

\* the elements of a sequence
Range(s) == {s[i] : i \in 1..Len(s)}

\* number of occurrences of x in s
Count(s, x) == Cardinality({i \in 1..Len(s) : s[i] = x})

----------------------------------------------------------------------------
(* Rational numbers n/d, d > 0: the scores (degree / frequency and sums) *)

Rat(n, d) == <<n, d>>
RatZero == Rat(0, 1)
RatAdd(x, y) == Rat(x[1] * y[2] + y[1] * x[2], x[2] * y[2])
RatEq(x, y) == x[1] * y[2] = y[1] * x[2]
RatLess(x, y) == x[1] * y[2] < y[1] * x[2]
RatLeq(x, y) == x[1] * y[2] <= y[1] * x[2]

----------------------------------------------------------------------------
(* The external tables: stopwords-iso and the brill lexicon *)

\* A JavaScript value that is undefined, an Array or a Set.  Only membership
\* is ever asked of the elements, so both collections carry them as a set;
\* kind tells which methods exist (a Set has .has, an Array has .includes).
Undefined == [kind |-> "undefined", value |-> {}]
ArrayOf(elements) == [kind |-> "Array", value |-> elements]
SetOf(elements) == [kind |-> "Set", value |-> elements]

\* import isoStopWordSet from 'stopwords-iso/stopwords-iso.json': an object
\* from language code to the ARRAY of its stopwords.  A representative
\* excerpt: "a" is an English stopword, "es" is another language of the table.
isoStopWordSetTable ==
    [l \in {"en", "es"} |-> IF l = "en" THEN {<<"a">>} ELSE {<<"t", "a">>}]

\* isoStopWordSet[language]: the array, or undefined for a missing key
isoStopWordSet(language) ==
    IF language \in DOMAIN isoStopWordSetTable
    THEN ArrayOf(isoStopWordSetTable[language])
    ELSE Undefined

\* import {brill} from 'brill': an object from word to the array of its tags.
\* A representative excerpt: two nouns, an adjective, a word with two tags,
\* and an entry that exists only in title case.
brillTable ==
    LET keys == {<<"c", "a", "t">>, <<"a", "b">>, <<"b", "2">>, <<"C", "a", "b">>,
                 <<"f", "r", "e", "q", "u", "e", "n", "c", "y">>}
    IN [k \in keys |->
          CASE k = <<"c", "a", "t">> -> {"NN"}
            [] k = <<"f", "r", "e", "q", "u", "e", "n", "c", "y">> -> {"NN"}
            [] k = <<"a", "b">> -> {"JJ"}
            [] k = <<"b", "2">> -> {"NN", "CD"}
            [] k = <<"C", "a", "b">> -> {"NNP", "NN"}]

\* brill[keyword]: the tag array, or undefined
brill(keyword) ==
    IF keyword \in DOMAIN brillTable
    THEN ArrayOf(brillTable[keyword])
    ELSE Undefined

----------------------------------------------------------------------------
(* src/unnamed/part_001 *)

\* /\w/
WordChars == Letters \cup Digits \cup {"_"}

\* DEFAULT_WORD_DELIMITERS = /[^a-zA-Z0-9_+\-/]/
DEFAULT_WORD_DELIMITERS == Chars \ (Letters \cup Digits \cup {"_", "+", "-", "/"})

\* isNumber: whether the FIRST character is a digit
isNumber(char) == char # <<>> /\ char[1] \in Digits

\* createStopWordFilter without the test: every keyword is accepted
createStopWordFilterNone(stopWordSet, keyword) == TRUE

\* createStopWordFilter(stopWordSet)(keyword): !stopWordSet.has(keyword).
\* Only a Set has .has: on undefined or on an Array the call is a TypeError.
createStopWordFilterThrows(stopWordSet) == stopWordSet.kind # "Set"

createStopWordFilter(stopWordSet, keyword) == keyword \notin stopWordSet.value

\* createAlphaDigitsAcceptabilityFilter as its comment words it: more alpha
\* than digits characters (digits < alpha)
createAlphaDigitsAcceptabilityFilterStrict(phrase) ==
    LET digits == Cardinality({i \in 1..Len(phrase) : phrase[i] \in Digits})
        alpha == Cardinality({i \in 1..Len(phrase) : phrase[i] \in Letters})
    IN alpha > 0 /\ digits < alpha

createAlphaDigitsAcceptabilityFilter(phrase) ==
    LET digits == Cardinality({i \in 1..Len(phrase) : phrase[i] \in Digits})
        alpha == Cardinality({i \in 1..Len(phrase) :
                                 phrase[i] \notin Digits /\ phrase[i] \in Letters})
    IN alpha > 0 /\ digits <= alpha

\* createMinCharLengthFilter with the comparison turned round: a maximum length
createMinCharLengthFilterMax(minCharLength, phrase) == Len(phrase) <= minCharLength

\* createMinCharLengthFilter written minCharLength && phrase.length >= minCharLength:
\* a minCharLength of 0 is falsy and rejects every phrase
createMinCharLengthFilterTruthy(minCharLength, phrase) ==
    minCharLength # 0 /\ Len(phrase) >= minCharLength

createMinCharLengthFilter(minCharLength, phrase) == Len(phrase) >= minCharLength

\* /\b/ : the positions between a word character and a non-word character
\* (or the string's edge); split(/\b/) cuts there and never yields an empty
\* piece except for the empty string
WordBoundaryAt(s, i) ==
    \* between s[i] and s[i+1], 1 <= i < Len(s)
    (s[i] \in WordChars) # (s[i + 1] \in WordChars)

splitWordBoundaryLength(s) ==
    IF s = <<>> THEN 1
    ELSE 1 + Cardinality({i \in 1..(Len(s) - 1) : WordBoundaryAt(s, i)})

createMaxWordsLengthFilter(maxWordsLength, phrase) ==
    splitWordBoundaryLength(phrase) <= maxWordsLength

\* separateWords(text, minWordReturnSize)
separateWords(text, minWordReturnSize) ==
    LET pieces == split(text, DEFAULT_WORD_DELIMITERS)
        currentWord(i) == toLowerCase(trim(pieces[i]))
        keep(w) == Len(w) > minWordReturnSize /\ w # <<>> /\ ~isNumber(w)
    IN SelectSeq([i \in 1..Len(pieces) |-> currentWord(i)], keep)

\* extractRawKeywords: text.match(/\b\w+\b/g) || [] : the maximal runs of
\* word characters, none when there is no match
extractRawKeywords(text) ==
    SelectSeq(split(text, Chars \ WordChars), LAMBDA w : w # <<>>)

normalizeKeyword(rawKeyword) == trim(toLowerCase(rawKeyword))

\* filterKeywords with the chain of extractWithRakePos: the stop word filter,
\* then the min length filter, then the alpha/digits filter
\* (createMaxWordsLengthFilter is commented out of the chain)
filterKeywordsThrows(normalizedKeywords, stopWordSet) ==
    normalizedKeywords # <<>> /\ createStopWordFilterThrows(stopWordSet)

filterKeywords(normalizedKeywords, stopWordSet, minCharLength) ==
    LET f1 == SelectSeq(normalizedKeywords,
                        LAMBDA k : createStopWordFilter(stopWordSet, k))
        f2 == SelectSeq(f1, LAMBDA k : createMinCharLengthFilter(minCharLength, k))
    IN SelectSeq(f2, createAlphaDigitsAcceptabilityFilter)

\* index of the entry of phrase in a phrase map kept in key insertion order
PhraseIndex(phraseScores, phrase) ==
    CHOOSE i \in 1..Len(phraseScores) : phraseScores[i].phrase = phrase

PhraseKeys(phraseScores) == {phraseScores[i].phrase : i \in 1..Len(phraseScores)}

\* TallyWord with the word itself counted into the degree
\* (degree += wordListDegree + 1)
TallyWordWithSelf(keywordScores, word, wordListDegree) ==
    LET old == IF word \in DOMAIN keywordScores
               THEN keywordScores[word]
               ELSE [frequency |-> 0, degree |-> 0, score |-> RatZero]
        new == [old EXCEPT !.frequency = @ + 1, !.degree = @ + wordListDegree + 1]
    IN [w \in DOMAIN keywordScores \cup {word} |->
          IF w = word THEN new ELSE keywordScores[w]]

\* generateScoredPhrases, the inner forEach over wordList: one word
TallyWord(keywordScores, word, wordListDegree) ==
    LET old == IF word \in DOMAIN keywordScores
               THEN keywordScores[word]
               ELSE [frequency |-> 0, degree |-> 0, score |-> RatZero]
        new == [old EXCEPT !.frequency = @ + 1, !.degree = @ + wordListDegree]
    IN [w \in DOMAIN keywordScores \cup {word} |->
          IF w = word THEN new ELSE keywordScores[w]]

RECURSIVE TallyWords(_, _, _)
TallyWords(keywordScores, wordList, wordListDegree) ==
    IF wordList = <<>> THEN keywordScores
    ELSE TallyWords(TallyWord(keywordScores, Head(wordList), wordListDegree),
                    Tail(wordList), wordListDegree)

\* generateScoredPhrases, the first loop: phraseList.forEach
\* acc = [phraseScores, keywordScores, phraseToWordScores]
TallyPhrase(acc, phrase) ==
    LET known == phrase \in PhraseKeys(acc.phraseScores)
        ps0 == IF known THEN acc.phraseScores
               ELSE Append(acc.phraseScores,
                           [phrase |-> phrase, frequency |-> 0, score |-> RatZero])
        i == PhraseIndex(ps0, phrase)
        ps1 == [ps0 EXCEPT ![i].frequency = @ + 1]
        wordList == separateWords(phrase, 0)
        wordListDegree == Len(wordList) - 1
        old == IF known THEN acc.phraseToWordScores[phrase] ELSE {}
    IN [phraseScores |-> ps1,
        keywordScores |-> TallyWords(acc.keywordScores, wordList, wordListDegree),
        phraseToWordScores |->
            [q \in PhraseKeys(ps1) |->
               IF q = phrase THEN old \cup Range(wordList)
               ELSE acc.phraseToWordScores[q]]]

RECURSIVE TallyPhrases(_, _)
TallyPhrases(acc, phraseListArg) ==
    IF phraseListArg = <<>> THEN acc
    ELSE TallyPhrases(TallyPhrase(acc, Head(phraseListArg)), Tail(phraseListArg))

\* sum of the scores of a set of word statistics
RECURSIVE SumScores(_, _)
SumScores(keywordScores, words) ==
    IF words = {} THEN RatZero
    ELSE LET w == CHOOSE x \in words : TRUE
         IN RatAdd(keywordScores[w].score, SumScores(keywordScores, words \ {w}))

\* generateScoredPhrases(phraseList, minKeywordFrequency)
generateScoredPhrases(phraseListArg, minKeywordFrequency) ==
    LET empty == [phraseScores |-> <<>>,
                  keywordScores |-> [w \in {} |-> 0],
                  phraseToWordScores |-> [q \in {} |-> {}]]
        acc == TallyPhrases(empty, phraseListArg)
        \* score.score = score.degree / score.frequency
        keywordScores ==
            [w \in DOMAIN acc.keywordScores |->
               [acc.keywordScores[w] EXCEPT
                  !.score = Rat(acc.keywordScores[w].degree,
                                acc.keywordScores[w].frequency)]]
        \* a phrase below minKeywordFrequency is skipped (continue): its entry
        \* stays in phraseScores with score 0
        phraseScores ==
            [i \in 1..Len(acc.phraseScores) |->
               IF acc.phraseScores[i].frequency < minKeywordFrequency
               THEN acc.phraseScores[i]
               ELSE [acc.phraseScores[i] EXCEPT
                       !.score = RatAdd(@, SumScores(keywordScores,
                                  acc.phraseToWordScores[acc.phraseScores[i].phrase]))]]
    IN [phrases |-> phraseScores, keywords |-> keywordScores]

\* The maps of generateScoredPhrases are object literals ({}), so
\* `phrase in phraseScores` is also true for a name inherited from
\* Object.prototype.  Of the inherited names the excerpt keeps the accessor
\* __proto__, whose value is Object.prototype itself.
ObjectPrototypeAtLoad ==
    [k \in {<<"_", "_", "p", "r", "o", "t", "o", "_", "_">>} |-> "Object.prototype"]

\* generateScoredPhrases in a realm whose Object.prototype is proto:
\* [threw, value, objectPrototype].  The phrases in front of the first
\* inherited name are tallied in the local maps.  At an inherited name the
\* entry is not initialised (lines 120-123), so line 125 does
\* phraseScores[phrase].frequency += 1 on the inherited value: for __proto__
\* that value is Object.prototype, which gets the property frequency = NaN;
\* for frequency = NaN it is a primitive and nothing is stored.  Line 133 then
\* calls .add on the inherited value, which is not a function: a TypeError
\* (the word list of such a name is the name itself, never empty).
generateScoredPhrasesIn(proto, phraseListArg, minKeywordFrequency) ==
    LET inherited == {i \in 1..Len(phraseListArg) : phraseListArg[i] \in DOMAIN proto}
        first == CHOOSE i \in inherited : \A j \in inherited : i <= j
        frequency == <<"f", "r", "e", "q", "u", "e", "n", "c", "y">>
    IN IF inherited = {}
       THEN [threw |-> FALSE,
             value |-> generateScoredPhrases(phraseListArg, minKeywordFrequency),
             objectPrototype |-> proto]
       ELSE [threw |-> TRUE,
             value |-> [phrases |-> <<>>, keywords |-> <<>>],
             objectPrototype |->
                 IF proto[phraseListArg[first]] = "Object.prototype"
                 THEN [k \in DOMAIN proto \cup {frequency} |->
                          IF k = frequency THEN "NaN" ELSE proto[k]]
                 ELSE proto]

\* const combinedStopWordSet = additionalStopWordSet
\*     ? new Set([...isoStopWordSet[language], ...additionalStopWordSet])
\*     : isoStopWordSet[language];
\* Spreading undefined is a TypeError; without additional stop words the
\* table's own value (an Array, or undefined) is used as it is.
combineStopWords(language, additionalStopWordSet) ==
    IF additionalStopWordSet.kind # "undefined"
    THEN IF isoStopWordSet(language).kind = "undefined"
         THEN [threw |-> TRUE, value |-> Undefined]
         ELSE [threw |-> FALSE,
               value |-> SetOf(isoStopWordSet(language).value
                               \cup additionalStopWordSet.value)]
    ELSE [threw |-> FALSE, value |-> isoStopWordSet(language)]

\* InsertDescending with x put in front of the elements it ties with
\* (a sort that is not stable)
InsertDescendingFirst(sorted, x) ==
    LET before == {j \in 1..Len(sorted) : RatLeq(sorted[j].score, x.score)}
        at == IF before = {} THEN Len(sorted) + 1
              ELSE CHOOSE j \in before : \A k \in before : j <= k
    IN SubSeq(sorted, 1, at - 1) \o <<x>> \o SubSeq(sorted, at, Len(sorted))

\* keywordCandidatesPairs.sort((p1, p2) => p2[1] - p1[1]): Array.prototype.sort
\* is stable, so an element stays behind the earlier elements it ties with
InsertDescending(sorted, x) ==
    LET before == {j \in 1..Len(sorted) : RatLess(sorted[j].score, x.score)}
        at == IF before = {} THEN Len(sorted) + 1
              ELSE CHOOSE j \in before : \A k \in before : j <= k
    IN SubSeq(sorted, 1, at - 1) \o <<x>> \o SubSeq(sorted, at, Len(sorted))

RECURSIVE sortDescending(_)
sortDescending(pairs) ==
    IF pairs = <<>> THEN <<>>
    ELSE InsertDescending(sortDescending(SubSeq(pairs, 1, Len(pairs) - 1)),
                          pairs[Len(pairs)])

\* rankPhrases with the whole pair turned into a string ("phrase,score") in
\* place of pair[0]
rankPhrasesPairs(phraseScores) ==
    LET sorted == sortDescending(phraseScores)
    IN [i \in 1..Len(sorted) |-> sorted[i].phrase \o <<",", "0">>]

\* Object.entries(phrases) -> [phrase, score.score] -> sort -> pair[0]
rankPhrases(phraseScores) ==
    LET sorted == sortDescending(phraseScores)
    IN [i \in 1..Len(sorted) |-> sorted[i].phrase]

\* posFilter with every tag required to be allowed (every for some)
posFilterEvery(posAllowedSet, keyword) ==
    LET keywordPOS == IF brill(keyword).kind = "undefined" THEN {}
                      ELSE brill(keyword).value
    IN keywordPOS # {} /\ \A x \in keywordPOS : x \in posAllowedSet

\* the filter callback of the return statement:
\*   keywordPOS = brill[keyword] || [];
\*   intersect = new Set([...keywordPOS].filter(x => posAllowedSet.has(x)));
\*   return intersect.size > 0
posFilter(posAllowedSet, keyword) ==
    LET keywordPOS == IF brill(keyword).kind = "undefined" THEN {}
                      ELSE brill(keyword).value
        intersect == {x \in keywordPOS : x \in posAllowedSet}
    IN Cardinality(intersect) > 0

\* the default of the destructured parameter posAllowedSet
resolvePosAllowedSet(posAllowedSet) ==
    IF posAllowedSet.kind = "undefined" THEN {"NN", "NNS"} ELSE posAllowedSet.value

----------------------------------------------------------------------------
(* src/src/index.ts, lines 1-195 *)

\* isNumber: whether the string CONTAINS a digit (/\d/.test)
isNumberIndex(str) == \E i \in 1..Len(str) : str[i] \in Digits

isAcceptable(phrase, minCharLength, maxWordsLength) ==
    LET words == split(phrase, {" "})
        digits == Cardinality({i \in 1..Len(phrase) : phrase[i] \in Digits})
        alpha == Cardinality({i \in 1..Len(phrase) : phrase[i] \in Letters})
    IN /\ ~(Len(phrase) < minCharLength)
       /\ ~(Len(words) > maxWordsLength)
       /\ ~(alpha = 0)
       /\ ~(digits > alpha)

countOccurrences(haystack, needle) == Count(haystack, needle)

separateWordsIndex(text, minWordReturnSize) ==
    LET pieces == split(text, DEFAULT_WORD_DELIMITERS)
        currentWord(i) == toLowerCase(trim(pieces[i]))
        keep(w) == Len(w) > minWordReturnSize /\ w # <<>> /\ ~isNumberIndex(w)
    IN SelectSeq([i \in 1..Len(pieces) |-> currentWord(i)], keep)

\* calculateWordScores, the inner forEach: one word of a phrase
CountWord(stats, word, wordListDegree) ==
    LET old == IF word \in DOMAIN stats THEN stats[word]
               ELSE [wordFrequency |-> 0, wordDegree |-> 0]
        new == [wordFrequency |-> old.wordFrequency + 1,
                wordDegree |-> old.wordDegree + wordListDegree]
    IN [w \in DOMAIN stats \cup {word} |-> IF w = word THEN new ELSE stats[w]]

RECURSIVE CountWords(_, _, _)
CountWords(stats, wordList, wordListDegree) ==
    IF wordList = <<>> THEN stats
    ELSE CountWords(CountWord(stats, Head(wordList), wordListDegree),
                    Tail(wordList), wordListDegree)

\* calculateWordScores, phraseList.forEach; wordLists[i] is the wordList of
\* the i-th phrase
RECURSIVE CountPhrases(_, _)
CountPhrases(stats, wordLists) ==
    IF wordLists = <<>> THEN stats
    ELSE CountPhrases(CountWords(stats, Head(wordLists), Len(Head(wordLists)) - 1),
                      Tail(wordLists))

\* calculateWordScores after the word lists are known:
\* wordDegree[item] + wordFrequency[item], divided by wordFrequency[item]
WordScoresOf(wordLists) ==
    LET stats == CountPhrases([w \in {} |-> 0], wordLists)
    IN [w \in DOMAIN stats |->
          Rat(stats[w].wordDegree + stats[w].wordFrequency, stats[w].wordFrequency)]

calculateWordScores(phraseListArg) ==
    WordScoresOf([i \in 1..Len(phraseListArg) |->
                     separateWordsIndex(phraseListArg[i], 0)])

\* candidateScore += wordScore[word], over the word list of one phrase
RECURSIVE CandidateScore(_, _)
CandidateScore(wordScore, wordList) ==
    IF wordList = <<>> THEN RatZero
    ELSE RatAdd(CandidateScore(wordScore, SubSeq(wordList, 1, Len(wordList) - 1)),
                wordScore[wordList[Len(wordList)]])

\* generateCandidateKeywordScores, one turn of phraseList.forEach;
\* keywordCandidates is kept in key insertion order
ScoreCandidate(keywordCandidates, phraseListArg, phrase, wordList, wordScore, minKeywordFrequency) ==
    IF minKeywordFrequency > 1
       /\ countOccurrences(phraseListArg, phrase) < minKeywordFrequency
    THEN keywordCandidates
    ELSE LET kc0 == IF phrase \in PhraseKeys(keywordCandidates)
                    THEN keywordCandidates
                    ELSE Append(keywordCandidates,
                                [phrase |-> phrase, score |-> RatZero])
             i == PhraseIndex(kc0, phrase)
         IN IF wordList = <<>> THEN kc0
            ELSE [kc0 EXCEPT ![i].score = CandidateScore(wordScore, wordList)]

\* generateCandidateKeywordScores, phraseList.forEach from the n-th phrase on
RECURSIVE ScoreCandidates(_, _, _, _, _, _)
ScoreCandidates(keywordCandidates, phraseListArg, wordLists, n, wordScore, minKeywordFrequency) ==
    IF n > Len(phraseListArg) THEN keywordCandidates
    ELSE ScoreCandidates(
             ScoreCandidate(keywordCandidates, phraseListArg, phraseListArg[n],
                            wordLists[n], wordScore, minKeywordFrequency),
             phraseListArg, wordLists, n + 1, wordScore, minKeywordFrequency)

generateCandidateKeywordScores(phraseListArg, wordScore, minKeywordFrequency) ==
    ScoreCandidates(<<>>, phraseListArg,
                    [i \in 1..Len(phraseListArg) |->
                        separateWordsIndex(phraseListArg[i], 0)],
                    1, wordScore, minKeywordFrequency)

\* sentenceDelimiters = /[[\]!.?,;:\t\\\-"'()'’–\n]/
sentenceDelimiters ==
    {"[", "]", "!", ".", "?", ",", ";", ":", "-", "'", "(", ")"}

splitSentences(text) == split(text, sentenceDelimiters)

\* sentence.replace(/[^\w\s]|_/g, ''): drop what is neither a word character
\* nor whitespace, and drop the underscore
stripPunctuation(sentence) ==
    SelectSeq(sentence, LAMBDA c : c \in (WordChars \cup Whitespace) /\ c # "_")

\* .replace(/\s+/g, ' '): every run of whitespace becomes one space
RECURSIVE collapseWhitespace(_)
collapseWhitespace(s) ==
    IF s = <<>> THEN <<>>
    ELSE IF Head(s) \in Whitespace
         THEN IF Len(s) > 1 /\ s[2] \in Whitespace
              THEN collapseWhitespace(Tail(s))
              ELSE <<" ">> \o collapseWhitespace(Tail(s))
         ELSE <<Head(s)>> \o collapseWhitespace(Tail(s))

\* generateCandidateKeywords, the phrases of one sentence
sentenceKeywords(sentence, stopWordSet, minCharLength, maxWordsLength) ==
    LET tmp == collapseWhitespace(stripPunctuation(sentence))
        pieces == split(tmp, {" "})
        cand == [i \in 1..Len(pieces) |-> toLowerCase(trim(pieces[i]))]
    IN SelectSeq(cand, LAMBDA phrase :
           /\ phrase # <<>>
           /\ isAcceptable(phrase, minCharLength, maxWordsLength)
           /\ phrase \notin stopWordSet)

RECURSIVE generateCandidateKeywords(_, _, _, _)
generateCandidateKeywords(sentenceList, stopWordSet, minCharLength, maxWordsLength) ==
    IF sentenceList = <<>> THEN <<>>
    ELSE sentenceKeywords(Head(sentenceList), stopWordSet, minCharLength, maxWordsLength)
         \o generateCandidateKeywords(Tail(sentenceList), stopWordSet,
                                      minCharLength, maxWordsLength)

\* new Set([...isoStopWordSet[language], ...additionalStopWordSet]), with the
\* parameter default additionalStopWordSet = new Set(['']); spreading
\* undefined is a TypeError
combineStopWordsIndex(language, additionalStopWordSet) ==
    LET additional == IF additionalStopWordSet.kind = "undefined"
                      THEN {<<>>} ELSE additionalStopWordSet.value
    IN IF isoStopWordSet(language).kind = "undefined"
       THEN [threw |-> TRUE, value |-> Undefined]
       ELSE [threw |-> FALSE,
             value |-> SetOf(isoStopWordSet(language).value \cup additional)]

\* sortBy(pairs, pair => pair[1]): ascending and stable
InsertAscending(sorted, x) ==
    LET after == {j \in 1..Len(sorted) : RatLess(x.score, sorted[j].score)}
        at == IF after = {} THEN Len(sorted) + 1
              ELSE CHOOSE j \in after : \A k \in after : j <= k
    IN SubSeq(sorted, 1, at - 1) \o <<x>> \o SubSeq(sorted, at, Len(sorted))

RECURSIVE sortBy(_)
sortBy(pairs) ==
    IF pairs = <<>> THEN <<>>
    ELSE InsertAscending(sortBy(SubSeq(pairs, 1, Len(pairs) - 1)), pairs[Len(pairs)])

reverse(s) == [i \in 1..Len(s) |-> s[Len(s) + 1 - i]]

\* rankPhrasesIndex without the reverse(): ascending
rankPhrasesIndexAscending(keywordCandidates) ==
    LET sorted == sortBy(keywordCandidates)
    IN [i \in 1..Len(sorted) |-> sorted[i].phrase]

\* Object.keys(fromPairs(sortBy(toPairs(keywordCandidates), pair => pair[1])
\* .reverse())): no phrase is an array index (each has a letter), so the keys
\* come back in the order of the pairs
rankPhrasesIndex(keywordCandidates) ==
    LET sorted == reverse(sortBy(keywordCandidates))
    IN [i \in 1..Len(sorted) |-> sorted[i].phrase]

\* the filter callback: keywordPOS && posAllowedList.some(allowedPOS =>
\* keywordPOS.includes(allowedPOS))
posFilterIndex(posAllowedSet, keyword) ==
    /\ brill(keyword).kind # "undefined"
    /\ \E allowedPOS \in posAllowedSet : allowedPOS \in brill(keyword).value

----------------------------------------------------------------------------
(* src/src/index.ts, lines 197-421: the filter chain of part_001 (isNumber,    *)
(* the create...Filter functions, separateWords, normalizeKeyword,            *)
(* filterKeywords and the stop word line are the same text there) in front    *)
(* of the scoring and ranking of lines 1-195                                  *)

\* extractRawKeywords: text.match(/\b\w+\b/g), which is null without a match
extractRawKeywordsIndex2(text) ==
    IF extractRawKeywords(text) = <<>>
    THEN [kind |-> "null", value |-> <<>>]
    ELSE [kind |-> "Array", value |-> extractRawKeywords(text)]

\* extractRawKeywords(text).map(normalizeKeyword): a TypeError on null
rawPhraseListIndex2Throws(text) == extractRawKeywordsIndex2(text).kind = "null"

rawPhraseListIndex2(text) ==
    LET raw == extractRawKeywordsIndex2(text).value
    IN [i \in 1..Len(raw) |-> normalizeKeyword(raw[i])]

calculateWordScoresIndex2(phraseListArg) ==
    WordScoresOf([i \in 1..Len(phraseListArg) |-> separateWords(phraseListArg[i], 0)])

generateCandidateKeywordScoresIndex2(phraseListArg, wordScore, minKeywordFrequency) ==
    ScoreCandidates(<<>>, phraseListArg,
                    [i \in 1..Len(phraseListArg) |-> separateWords(phraseListArg[i], 0)],
                    1, wordScore, minKeywordFrequency)

----------------------------------------------------------------------------
(* extractWithRakePos as a function of its argument object *)

\* src/unnamed/part_001: rawPhraseList
rawPhraseList(text) ==
    LET raw == extractRawKeywords(text)
    IN [i \in 1..Len(raw) |-> normalizeKeyword(raw[i])]

\* src/unnamed/part_001, extractWithRakePos called in a fresh realm:
\* [threw, result]
extractWithRakePos(a) ==
    LET combined == combineStopWords(a.language, a.additionalStopWordSet)
        raw == rawPhraseList(a.text)
        list == filterKeywords(raw, combined.value, a.minCharLength)
        scored == generateScoredPhrasesIn(ObjectPrototypeAtLoad, list,
                                          a.minKeywordFrequency)
        ranked == rankPhrases(scored.value.phrases)
        allowed == resolvePosAllowedSet(a.posAllowedSet)
    IN IF combined.threw \/ filterKeywordsThrows(raw, combined.value) \/ scored.threw
       THEN [threw |-> TRUE, result |-> <<>>]
       ELSE [threw |-> FALSE,
             result |-> SelectSeq(ranked, LAMBDA k : posFilter(allowed, k))]

\* src/src/index.ts, extractWithRakePos: [threw, result]
extractWithRakePosIndex(a) ==
    LET combined == combineStopWordsIndex(a.language, a.additionalStopWordSet)
        list == generateCandidateKeywords(splitSentences(a.text), combined.value.value,
                                          a.minCharLength, a.maxWordsLength)
        wordScores == calculateWordScores(list)
        candidates == generateCandidateKeywordScores(list, wordScores,
                                                     a.minKeywordFrequency)
        ranked == rankPhrasesIndex(candidates)
        allowed == resolvePosAllowedSet(a.posAllowedSet)
    IN IF combined.threw
       THEN [threw |-> TRUE, result |-> <<>>]
       ELSE [threw |-> FALSE,
             result |-> SelectSeq(ranked, LAMBDA k : posFilterIndex(allowed, k))]

\* src/src/index.ts lines 381-421, extractWithRakePos: [threw, result]
extractWithRakePosIndex2(a) ==
    LET combined == combineStopWords(a.language, a.additionalStopWordSet)
        raw == rawPhraseListIndex2(a.text)
        list == filterKeywords(raw, combined.value, a.minCharLength)
        wordScores == calculateWordScoresIndex2(list)
        candidates == generateCandidateKeywordScoresIndex2(list, wordScores,
                                                           a.minKeywordFrequency)
        ranked == rankPhrasesIndex(candidates)
        allowed == resolvePosAllowedSet(a.posAllowedSet)
    IN IF \/ combined.threw
          \/ rawPhraseListIndex2Throws(a.text)
          \/ filterKeywordsThrows(raw, combined.value)
       THEN [threw |-> TRUE, result |-> <<>>]
       ELSE [threw |-> FALSE,
             result |-> SelectSeq(ranked, LAMBDA k : posFilterIndex(allowed, k))]

----------------------------------------------------------------------------
(* The calls the model makes *)

\* the words a text is made of
Vocabulary ==
    {<<"a">>, <<"c", "a", "t">>, <<"a", "b">>, <<"C", "a", "b">>, <<"b", "2">>}

\* what stands between two words of a text: a space, or a full stop and a space
Separators == {<<" ">>, <<".", " ">>}

\* texts without any word character
BlankTexts == {<<".">>, <<" ", ".">>}

Texts ==
    BlankTexts \cup
    UNION {{join(ws, sep) : ws \in [1..n -> Vocabulary], sep \in Separators} :
           n \in 0..MaxTokens}

Languages == {"en", "xx"}

AdditionalStopWordSets == {Undefined, SetOf({<<"a", "b">>})}

PosAllowedSets == {Undefined, SetOf({"NN"})}

MinCharLengths == {-1, 0, 2}

MinKeywordFrequencies == {0, 1, 2}

MaxWordsLengths == {5}

\* the copies of extractWithRakePos in the repository: src/unnamed/part_001,
\* src/src/index.ts lines 1-195, src/src/index.ts lines 197-421
Implementations == {"part_001", "index", "index2"}

Calls ==
    [text : Texts,
     language : Languages,
     additionalStopWordSet : AdditionalStopWordSets,
     posAllowedSet : PosAllowedSets,
     minCharLength : MinCharLengths,
     maxWordsLength : MaxWordsLengths,
     minKeywordFrequency : MinKeywordFrequencies]

Init ==
    /\ impl \in Implementations
    /\ args \in Calls
    /\ pc = "start"
    /\ combinedStopWordSet = Undefined
    /\ phraseList = <<>>
    /\ phrases = <<>>
    /\ keywords = <<>>
    /\ keywordsList = <<>>
    /\ result = <<>>
    /\ threw = FALSE
    /\ objectPrototype = ObjectPrototypeAtLoad
    /\ calls = <<>>

\* a TypeError ends the call
Throw ==
    /\ pc' = "done"
    /\ threw' = TRUE

----------------------------------------------------------------------------
(* src/unnamed/part_001, extractWithRakePos, statement by statement *)

\* line 213
CombineStopWords ==
    /\ impl = "part_001" /\ pc = "start"
    /\ LET r == combineStopWords(args.language, args.additionalStopWordSet)
       IN IF r.threw
          THEN Throw /\ UNCHANGED combinedStopWordSet
          ELSE /\ combinedStopWordSet' = r.value
               /\ pc' = "combined"
               /\ UNCHANGED threw
    /\ UNCHANGED <<objectPrototype, calls, impl, args, phraseList, phrases,
                   keywords, keywordsList, result>>

\* lines 214-224
FilterKeywords ==
    /\ impl = "part_001" /\ pc = "combined"
    /\ LET raw == rawPhraseList(args.text)
       IN IF filterKeywordsThrows(raw, combinedStopWordSet)
          THEN Throw /\ UNCHANGED phraseList
          ELSE /\ phraseList' = filterKeywords(raw, combinedStopWordSet,
                                               args.minCharLength)
               /\ pc' = "filtered"
               /\ UNCHANGED threw
    /\ UNCHANGED <<objectPrototype, calls, impl, args, combinedStopWordSet,
                   phrases, keywords, keywordsList, result>>

\* line 228
ScorePhrases ==
    /\ impl = "part_001" /\ pc = "filtered"
    /\ LET r == generateScoredPhrasesIn(objectPrototype, phraseList,
                                        args.minKeywordFrequency)
       IN /\ objectPrototype' = r.objectPrototype
          /\ IF r.threw
             THEN Throw /\ UNCHANGED <<phrases, keywords>>
             ELSE /\ phrases' = r.value.phrases
                  /\ keywords' = r.value.keywords
                  /\ pc' = "scored"
                  /\ UNCHANGED threw
    /\ UNCHANGED <<calls, impl, args, combinedStopWordSet, phraseList,
                   keywordsList, result>>

\* lines 231-236
SortPhrases ==
    /\ impl = "part_001" /\ pc = "scored"
    /\ keywordsList' = rankPhrases(phrases)
    /\ pc' = "ranked"
    /\ UNCHANGED <<objectPrototype, calls, impl, args, combinedStopWordSet,
                   phraseList, phrases, keywords, result, threw>>

\* lines 240-245
FilterByPos ==
    /\ impl = "part_001" /\ pc = "ranked"
    /\ result' = SelectSeq(keywordsList,
                    LAMBDA k : posFilter(resolvePosAllowedSet(args.posAllowedSet), k))
    /\ pc' = "done"
    /\ UNCHANGED <<objectPrototype, calls, impl, args, combinedStopWordSet,
                   phraseList, phrases, keywords, keywordsList, threw>>

----------------------------------------------------------------------------
(* src/src/index.ts, extractWithRakePos, statement by statement *)

\* line 181
CombineStopWordsIndex ==
    /\ impl = "index" /\ pc = "start"
    /\ LET r == combineStopWordsIndex(args.language, args.additionalStopWordSet)
       IN IF r.threw
          THEN Throw /\ UNCHANGED combinedStopWordSet
          ELSE /\ combinedStopWordSet' = r.value
               /\ pc' = "combined"
               /\ UNCHANGED threw
    /\ UNCHANGED <<objectPrototype, calls, impl, args, phraseList, phrases,
                   keywords, keywordsList, result>>

\* lines 182-183
GenerateCandidateKeywords ==
    /\ impl = "index" /\ pc = "combined"
    /\ phraseList' = generateCandidateKeywords(splitSentences(args.text),
                         combinedStopWordSet.value, args.minCharLength,
                         args.maxWordsLength)
    /\ pc' = "filtered"
    /\ UNCHANGED <<objectPrototype, calls, impl, args, combinedStopWordSet,
                   phrases, keywords, keywordsList, result, threw>>

\* lines 184-185
ScoreCandidatesIndex ==
    /\ impl = "index" /\ pc = "filtered"
    /\ LET wordScores == calculateWordScores(phraseList)
       IN /\ keywords' = wordScores
          /\ phrases' = generateCandidateKeywordScores(phraseList, wordScores,
                                                      args.minKeywordFrequency)
    /\ pc' = "scored"
    /\ UNCHANGED <<objectPrototype, calls, impl, args, combinedStopWordSet,
                   phraseList, keywordsList, result, threw>>

\* lines 186-187
SortKeywordsIndex ==
    /\ impl = "index" /\ pc = "scored"
    /\ keywordsList' = rankPhrasesIndex(phrases)
    /\ pc' = "ranked"
    /\ UNCHANGED <<objectPrototype, calls, impl, args, combinedStopWordSet,
                   phraseList, phrases, keywords, result, threw>>

\* lines 188-194
FilterByPosIndex ==
    /\ impl = "index" /\ pc = "ranked"
    /\ result' = SelectSeq(keywordsList,
                    LAMBDA k : posFilterIndex(resolvePosAllowedSet(args.posAllowedSet), k))
    /\ pc' = "done"
    /\ UNCHANGED <<objectPrototype, calls, impl, args, combinedStopWordSet,
                   phraseList, phrases, keywords, keywordsList, threw>>

----------------------------------------------------------------------------
(* src/src/index.ts lines 381-421, extractWithRakePos, statement by statement *)

\* line 398
CombineStopWordsIndex2 ==
    /\ impl = "index2" /\ pc = "start"
    /\ LET r == combineStopWords(args.language, args.additionalStopWordSet)
       IN IF r.threw
          THEN Throw /\ UNCHANGED combinedStopWordSet
          ELSE /\ combinedStopWordSet' = r.value
               /\ pc' = "combined"
               /\ UNCHANGED threw
    /\ UNCHANGED <<objectPrototype, calls, impl, args, phraseList, phrases,
                   keywords, keywordsList, result>>

\* lines 399-409
FilterKeywordsIndex2 ==
    /\ impl = "index2" /\ pc = "combined"
    /\ LET raw == rawPhraseListIndex2(args.text)
       IN IF \/ rawPhraseListIndex2Throws(args.text)
             \/ filterKeywordsThrows(raw, combinedStopWordSet)
          THEN Throw /\ UNCHANGED phraseList
          ELSE /\ phraseList' = filterKeywords(raw, combinedStopWordSet,
                                               args.minCharLength)
               /\ pc' = "filtered"
               /\ UNCHANGED threw
    /\ UNCHANGED <<objectPrototype, calls, impl, args, combinedStopWordSet,
                   phrases, keywords, keywordsList, result>>

\* lines 410-411
ScoreCandidatesIndex2 ==
    /\ impl = "index2" /\ pc = "filtered"
    /\ LET wordScores == calculateWordScoresIndex2(phraseList)
       IN /\ keywords' = wordScores
          /\ phrases' = generateCandidateKeywordScoresIndex2(phraseList, wordScores,
                                                            args.minKeywordFrequency)
    /\ pc' = "scored"
    /\ UNCHANGED <<objectPrototype, calls, impl, args, combinedStopWordSet,
                   phraseList, keywordsList, result, threw>>

\* lines 412-413
SortKeywordsIndex2 ==
    /\ impl = "index2" /\ pc = "scored"
    /\ keywordsList' = rankPhrasesIndex(phrases)
    /\ pc' = "ranked"
    /\ UNCHANGED <<objectPrototype, calls, impl, args, combinedStopWordSet,
                   phraseList, phrases, keywords, result, threw>>

\* lines 414-420
FilterByPosIndex2 ==
    /\ impl = "index2" /\ pc = "ranked"
    /\ result' = SelectSeq(keywordsList,
                    LAMBDA k : posFilterIndex(resolvePosAllowedSet(args.posAllowedSet), k))
    /\ pc' = "done"
    /\ UNCHANGED <<objectPrototype, calls, impl, args, combinedStopWordSet,
                   phraseList, phrases, keywords, keywordsList, threw>>

Next ==
    \/ CombineStopWords
    \/ FilterKeywords
    \/ ScorePhrases
    \/ SortPhrases
    \/ FilterByPos
    \/ CombineStopWordsIndex
    \/ GenerateCandidateKeywords
    \/ ScoreCandidatesIndex
    \/ SortKeywordsIndex
    \/ FilterByPosIndex
    \/ CombineStopWordsIndex2
    \/ FilterKeywordsIndex2
    \/ ScoreCandidatesIndex2
    \/ SortKeywordsIndex2
    \/ FilterByPosIndex2

Spec == Init /\ [][Next]_vars

----------------------------------------------------------------------------
(* The same call, on texts that exercise the filters: a stopword of the      *)
(* language, a stopword of the caller that the tagger knows as a noun, and   *)
(* words made of letters and digits in every proportion.                     *)

\* longest of these texts, counted in tokens
MaxFilterTokens == 3

FilterVocabulary ==
    {<<"a">>, <<"c", "a", "t">>, <<"b", "2">>, <<"b", "2", "2">>, <<"2">>,
     <<"2", "b">>}

FilterTexts ==
    UNION {{join(ws, <<" ">>) : ws \in [1..n -> FilterVocabulary]} :
           n \in 0..MaxFilterTokens}

FilterCalls ==
    [text : FilterTexts,
     language : {"en"},
     additionalStopWordSet : {Undefined, SetOf({<<"c", "a", "t">>})},
     posAllowedSet : {Undefined, SetOf({"NN"})},
     minCharLength : {1},
     maxWordsLength : {5},
     minKeywordFrequency : {1}]

InitFilters ==
    /\ impl \in Implementations
    /\ args \in FilterCalls
    /\ pc = "start"
    /\ combinedStopWordSet = Undefined
    /\ phraseList = <<>>
    /\ phrases = <<>>
    /\ keywords = <<>>
    /\ keywordsList = <<>>
    /\ result = <<>>
    /\ threw = FALSE
    /\ objectPrototype = ObjectPrototypeAtLoad
    /\ calls = <<>>

SpecFilters == InitFilters /\ [][Next]_vars

----------------------------------------------------------------------------
(* generateScoredPhrases of src/unnamed/part_001 as a function of its own:   *)
(* the call enters at line 228 with any phrase list, phrases of several      *)
(* words included.                                                          *)

\* longest phrase list handed to generateScoredPhrases
MaxPhrases == 2

\* a word, two distinct words, a word twice, a word and a number, a word
\* that starts with a digit beside a word
ScoringPhrases ==
    {<<"c", "a", "t">>,
     <<"a", "b", " ", "c", "a", "t">>,
     <<"a", "b", " ", "a", "b">>,
     <<"c", "a", "t", " ", "2">>,
     <<"2", "b", " ", "c", "a", "t">>}

ScoringPhraseLists == UNION {[1..n -> ScoringPhrases] : n \in 0..MaxPhrases}

ScoringCalls ==
    [text : {<<>>},
     language : {"en"},
     additionalStopWordSet : {SetOf({})},
     posAllowedSet : {Undefined, SetOf({"NN"})},
     minCharLength : {1},
     maxWordsLength : {5},
     minKeywordFrequency : {1, 2}]

InitScoring ==
    /\ impl = "part_001"
    /\ args \in ScoringCalls
    /\ pc = "filtered"
    /\ combinedStopWordSet = SetOf(isoStopWordSetTable["en"])
    /\ phraseList \in ScoringPhraseLists
    /\ phrases = <<>>
    /\ keywords = <<>>
    /\ keywordsList = <<>>
    /\ result = <<>>
    /\ threw = FALSE
    /\ objectPrototype = ObjectPrototypeAtLoad
    /\ calls = <<>>

NextScoring ==
    \/ ScorePhrases
    \/ SortPhrases
    \/ FilterByPos

SpecScoring == InitScoring /\ [][NextScoring]_vars

----------------------------------------------------------------------------
(* Several calls of src/unnamed/part_001's extractWithRakePos in one realm.  *)
(* Every call has its own local variables; Object.prototype belongs to the   *)
(* realm.  extractWithRakePos is synchronous, so in a realm one call runs to *)
(* completion before the next starts (SpecSequence); SpecInterleaved lets    *)
(* the statements of the calls interleave freely.                            *)

\* number of calls made in the realm
MaxCalls == 3

CallIds == 1..MaxCalls

CallTexts ==
    {<<"c", "a", "t">>,
     <<"f", "r", "e", "q", "u", "e", "n", "c", "y">>,
     <<"_", "_", "p", "r", "o", "t", "o", "_", "_">>}

\* the argument objects of the calls: a text, additional stop words (so that
\* the stop word set is a Set), the defaults for the rest
CallArgs ==
    [text : CallTexts,
     language : {"en"},
     additionalStopWordSet : {SetOf({<<"a", "b">>})},
     posAllowedSet : {Undefined},
     minCharLength : {1},
     maxWordsLength : {5},
     minKeywordFrequency : {1}]

\* the local variables of a call that has not started
CallEntry(a) ==
    [args |-> a, pc |-> "start", combinedStopWordSet |-> Undefined,
     phraseList |-> <<>>, phrases |-> <<>>, keywordsList |-> <<>>,
     result |-> <<>>, threw |-> FALSE]

\* the variables of the single call of Spec, unused here
singleCall ==
    <<impl, args, pc, combinedStopWordSet, phraseList, phrases, keywords,
      keywordsList, result, threw>>

InitCalls ==
    /\ objectPrototype = ObjectPrototypeAtLoad
    /\ calls \in [CallIds -> {CallEntry(a) : a \in CallArgs}]
    /\ impl = "part_001"
    /\ args = <<>>
    /\ pc = "none"
    /\ combinedStopWordSet = Undefined
    /\ phraseList = <<>>
    /\ phrases = <<>>
    /\ keywords = <<>>
    /\ keywordsList = <<>>
    /\ result = <<>>
    /\ threw = FALSE

\* a TypeError ends call c
CallThrow(c) == calls' = [calls EXCEPT ![c].pc = "done", ![c].threw = TRUE]

\* line 213
CallCombineStopWords(c) ==
    /\ calls[c].pc = "start"
    /\ LET r == combineStopWords(calls[c].args.language,
                                 calls[c].args.additionalStopWordSet)
       IN IF r.threw
          THEN CallThrow(c)
          ELSE calls' = [calls EXCEPT ![c].pc = "combined",
                                      ![c].combinedStopWordSet = r.value]
    /\ UNCHANGED <<objectPrototype, singleCall>>

\* lines 214-224
CallFilterKeywords(c) ==
    /\ calls[c].pc = "combined"
    /\ LET raw == rawPhraseList(calls[c].args.text)
       IN IF filterKeywordsThrows(raw, calls[c].combinedStopWordSet)
          THEN CallThrow(c)
          ELSE calls' = [calls EXCEPT
                           ![c].pc = "filtered",
                           ![c].phraseList =
                               filterKeywords(raw, calls[c].combinedStopWordSet,
                                              calls[c].args.minCharLength)]
    /\ UNCHANGED <<objectPrototype, singleCall>>

\* line 228
CallScorePhrases(c) ==
    /\ calls[c].pc = "filtered"
    /\ LET r == generateScoredPhrasesIn(objectPrototype, calls[c].phraseList,
                                        calls[c].args.minKeywordFrequency)
       IN /\ objectPrototype' = r.objectPrototype
          /\ IF r.threw
             THEN CallThrow(c)
             ELSE calls' = [calls EXCEPT ![c].pc = "scored",
                                         ![c].phrases = r.value.phrases]
    /\ UNCHANGED singleCall

\* lines 231-236
CallSortPhrases(c) ==
    /\ calls[c].pc = "scored"
    /\ calls' = [calls EXCEPT ![c].pc = "ranked",
                              ![c].keywordsList = rankPhrases(calls[c].phrases)]
    /\ UNCHANGED <<objectPrototype, singleCall>>

\* lines 240-245
CallFilterByPos(c) ==
    /\ calls[c].pc = "ranked"
    /\ calls' = [calls EXCEPT
                    ![c].pc = "done",
                    ![c].result =
                        SelectSeq(calls[c].keywordsList,
                            LAMBDA k : posFilter(
                                resolvePosAllowedSet(calls[c].args.posAllowedSet), k))]
    /\ UNCHANGED <<objectPrototype, singleCall>>

\* no other call is between its first and its last statement
RunsToCompletion(c) ==
    \A d \in CallIds \ {c} : calls[d].pc \in {"start", "done"}

SequenceCombineStopWords ==
    \E c \in CallIds : RunsToCompletion(c) /\ CallCombineStopWords(c)

SequenceFilterKeywords ==
    \E c \in CallIds : RunsToCompletion(c) /\ CallFilterKeywords(c)

SequenceScorePhrases ==
    \E c \in CallIds : RunsToCompletion(c) /\ CallScorePhrases(c)

SequenceSortPhrases ==
    \E c \in CallIds : RunsToCompletion(c) /\ CallSortPhrases(c)

SequenceFilterByPos ==
    \E c \in CallIds : RunsToCompletion(c) /\ CallFilterByPos(c)

NextSequence ==
    \/ SequenceCombineStopWords
    \/ SequenceFilterKeywords
    \/ SequenceScorePhrases
    \/ SequenceSortPhrases
    \/ SequenceFilterByPos

\* the calls of a realm, one after the other
SpecSequence == InitCalls /\ [][NextSequence]_vars

InterleavedCombineStopWords == \E c \in CallIds : CallCombineStopWords(c)

InterleavedFilterKeywords == \E c \in CallIds : CallFilterKeywords(c)

InterleavedScorePhrases == \E c \in CallIds : CallScorePhrases(c)

InterleavedSortPhrases == \E c \in CallIds : CallSortPhrases(c)

InterleavedFilterByPos == \E c \in CallIds : CallFilterByPos(c)

NextInterleaved ==
    \/ InterleavedCombineStopWords
    \/ InterleavedFilterKeywords
    \/ InterleavedScorePhrases
    \/ InterleavedSortPhrases
    \/ InterleavedFilterByPos

\* the calls of a realm with their statements interleaved
SpecInterleaved == InitCalls /\ [][NextInterleaved]_vars

(***************************************************************************)
(* createMaxWordsLengthFilter on its own.  extractWithRakePos leaves the   *)
(* filter out of its chain (src/unnamed/part_001 lines 220-222,            *)
(* src/src/index.ts lines 405-407), so the filter is applied here to a     *)
(* list of candidate phrases directly, as filterKeywords applies a filter. *)
(***************************************************************************)
MaxCandidates == 2
MaxWordsLengthLimit == 3

MaxWordsPhrases ==
    {<<>>,
     <<"c", "a", "t">>,
     <<"a", "b", " ", "c", "a", "t">>,
     <<"a", " ", "b", " ", "c">>,
     <<"a", "b", ".", "c", "a", "t">>,
     <<"a", "b", "_", "c", "a", "t">>}

MaxWordsPhraseLists == UNION {[1..n -> MaxWordsPhrases] : n \in 0..MaxCandidates}

MaxWordsCalls ==
    [text : {<<>>},
     language : {"en"},
     additionalStopWordSet : {SetOf({})},
     posAllowedSet : {Undefined},
     minCharLength : {1},
     maxWordsLength : 0..MaxWordsLengthLimit,
     minKeywordFrequency : {1}]

InitMaxWords ==
    /\ impl \in {"part_001", "index2"}
    /\ args \in MaxWordsCalls
    /\ pc = "maxWordsLength"
    /\ combinedStopWordSet = SetOf(isoStopWordSetTable["en"])
    /\ phraseList \in MaxWordsPhraseLists
    /\ phrases = <<>>
    /\ keywords = <<>>
    /\ keywordsList = <<>>
    /\ result = <<>>
    /\ threw = FALSE
    /\ objectPrototype = ObjectPrototypeAtLoad
    /\ calls = <<>>

\* phraseList.filter(createMaxWordsLengthFilter(maxWordsLength))
ApplyMaxWordsLengthFilter ==
    /\ pc = "maxWordsLength"
    /\ result' = SelectSeq(phraseList,
                     LAMBDA k : createMaxWordsLengthFilter(args.maxWordsLength, k))
    /\ pc' = "done"
    /\ UNCHANGED <<objectPrototype, calls, impl, args, combinedStopWordSet,
                   phraseList, phrases, keywords, keywordsList, threw>>

NextMaxWords == ApplyMaxWordsLengthFilter

SpecMaxWords == InitMaxWords /\ [][NextMaxWords]_vars

----------------------------------------------------------------------------
(* Claims *)

Returned == pc = "done" /\ ~threw

\* the phrase list has been built
Segmented == pc \in {"filtered", "scored", "ranked", "done"} /\ ~threw

\* the runs of consecutive non-stopword tokens of a token list, each joined
\* by single spaces
RECURSIVE TokenRuns(_, _, _)
TokenRuns(tokens, stop, cur) ==
    LET flush == IF cur = <<>> THEN <<>> ELSE <<join(cur, <<" ">>)>>
    IN IF tokens = <<>> THEN flush
       ELSE IF Head(tokens) \in stop
            THEN flush \o TokenRuns(Tail(tokens), stop, <<>>)
            ELSE TokenRuns(Tail(tokens), stop, Append(cur, Head(tokens)))

\* the maximal runs of a text: punctuation and stopwords end a run
RECURSIVE SentenceRuns(_, _)
SentenceRuns(sentences, stop) ==
    IF sentences = <<>> THEN <<>>
    ELSE LET tokens == SelectSeq(split(toLowerCase(Head(sentences)), Whitespace),
                                 LAMBDA w : w # <<>>)
         IN TokenRuns(tokens, stop, <<>>) \o SentenceRuns(Tail(sentences), stop)

MaximalRuns(text, stop) == SentenceRuns(split(text, Chars \ (WordChars \cup Whitespace)), stop)

\* C1: every maximal run of consecutive tokens that are not stopwords and are
\* not separated by punctuation is ONE candidate phrase, its tokens joined by
\* single spaces (here: every such run that meets the length and alpha/digit
\* conditions is in the phrase list, and the phrase list holds nothing else).
C1_RunsBecomePhrases ==
    Segmented =>
        LET runs == MaximalRuns(args.text, combinedStopWordSet.value)
            ok(r) == /\ Len(r) >= args.minCharLength
                     /\ createAlphaDigitsAcceptabilityFilter(r)
        IN phraseList = SelectSeq(runs, ok)

\* C2: after generateScoredPhrases, the phrase map holds no phrase that occurs
\* fewer than minKeywordFrequency times in the filtered phrase list, and no
\* such phrase is returned.
C2_BelowFrequencyExcluded ==
    (impl = "part_001" /\ pc \in {"scored", "ranked", "done"} /\ ~threw) =>
        /\ \A p \in PhraseKeys(phrases) :
              Count(phraseList, p) >= args.minKeywordFrequency
        /\ pc = "done" =>
              \A p \in Range(result) : Count(phraseList, p) >= args.minKeywordFrequency

\* a phrase has a tagger entry with at least one allowed tag
HasAllowedTag(allowed, k) ==
    k \in DOMAIN brillTable /\ brillTable[k] \cap allowed # {}

\* C3: with an allowed-tag set given, the step from the ranked list returns
\* exactly the ranked phrases whose tagger entry has an allowed tag, in ranked
\* order, and raises no error (a phrase without entry is just dropped).
C3_RolePostFilter ==
    [][(pc = "ranked" /\ args.posAllowedSet.kind = "Set") =>
          /\ pc' = "done"
          /\ ~threw'
          /\ result' = SelectSeq(keywordsList,
                          LAMBDA k : HasAllowedTag(args.posAllowedSet.value, k))]_vars

\* C3 witness: a call returned with a role filter that dropped a phrase
\* without tagger entry, dropped one with only other tags, and kept one
C3_Witness ==
    /\ Returned /\ args.posAllowedSet.kind = "Set"
    /\ \E k \in Range(keywordsList) : k \notin DOMAIN brillTable
    /\ \E k \in Range(keywordsList) :
          k \in DOMAIN brillTable /\ k \notin Range(result)
    /\ result # <<>>

\* C4: without posAllowedSet the call returns every ranked phrase unchanged.
C4_PassThroughWithoutRoleFilter ==
    (Returned /\ args.posAllowedSet.kind = "undefined") => result = keywordsList

\* upper case of one character
UpperChar(c) ==
    CASE c = "a" -> "A" [] c = "b" -> "B" [] c = "c" -> "C" [] c = "t" -> "T"
      [] OTHER -> c

toUpperCase(s) == [i \in 1..Len(s) |-> UpperChar(s[i])]

\* title case: the first letter of every word in upper case, the rest lower
titleCase(s) ==
    [i \in 1..Len(s) |->
       IF i = 1 \/ s[i - 1] \in Whitespace THEN UpperChar(s[i]) ELSE LowerChar(s[i])]

\* every character that is not alphanumeric replaced by a space
alphanumericForm(s) ==
    [i \in 1..Len(s) |-> IF s[i] \in Letters \cup Digits THEN s[i] ELSE " "]

\* the tags of a phrase over its four lookup forms
FourFormTags(k) ==
    UNION {IF f \in DOMAIN brillTable THEN brillTable[f] ELSE {} :
           f \in {k, toUpperCase(k), titleCase(k), alphanumericForm(k)}}

\* C5: the tag set used by the role filter is the union of the tagger's
\* results for the exact, upper-cased, title-cased and alphanumeric forms of
\* the phrase, so a phrase known only in title case with an allowed tag is kept.
C5_FourFormLookup ==
    (Returned /\ args.posAllowedSet.kind = "Set") =>
        result = SelectSeq(keywordsList,
                    LAMBDA k : FourFormTags(k) \cap args.posAllowedSet.value # {})

\* the score recorded for a phrase
PhraseScore(p) == phrases[PhraseIndex(phrases, p)].score

\* C6: in the returned list the phrase scores never increase.
C6_DescendingScore ==
    Returned =>
        \A i, j \in 1..Len(result) :
            i < j => RatLeq(PhraseScore(result[j]), PhraseScore(result[i]))

\* C6 witness: a returned list that holds two phrases of different score
C6_Witness ==
    /\ Returned
    /\ \E i, j \in 1..Len(result) :
          i < j /\ RatLess(PhraseScore(result[j]), PhraseScore(result[i]))

\* position of the first occurrence of x in s
FirstIndex(s, x) == CHOOSE i \in 1..Len(s) : s[i] = x /\ \A j \in 1..(i - 1) : s[j] # x

\* C7: in the ranked list of src/src/index.ts, two phrases of equal score
\* stand in the order of their first appearance in the phrase list.
C7_StableTieBreak ==
    (impl \in {"index", "index2"} /\ pc \in {"ranked", "done"} /\ ~threw) =>
        \A i, j \in 1..Len(keywordsList) :
            (i < j /\ RatEq(PhraseScore(keywordsList[i]), PhraseScore(keywordsList[j])))
            => FirstIndex(phraseList, keywordsList[i])
                 < FirstIndex(phraseList, keywordsList[j])

\* C8: for the empty text and for a text without word characters the call
\* returns the empty list and raises no error (stated for the languages of
\* the stopword table; C9 is about the other language codes).
C8_EmptyInput ==
    (/\ pc = "done"
     /\ args.language \in DOMAIN isoStopWordSetTable
     /\ \A i \in 1..Len(args.text) : args.text[i] \notin WordChars) =>
        ~threw /\ result = <<>>

\* the call's outcome
Outcome == [threw |-> threw, result |-> result]

\* the function the running implementation computes
Run(a) ==
    CASE impl = "part_001" -> extractWithRakePos(a)
      [] impl = "index" -> extractWithRakePosIndex(a)
      [] impl = "index2" -> extractWithRakePosIndex2(a)

\* the ranked list the running implementation builds from the text when stop
\* is its stopword set
RankedWith(stop) ==
    LET list == IF impl = "index"
                THEN generateCandidateKeywords(splitSentences(args.text), stop,
                         args.minCharLength, args.maxWordsLength)
                ELSE filterKeywords(rawPhraseList(args.text), SetOf(stop),
                                    args.minCharLength)
    IN CASE impl = "part_001" ->
              rankPhrases(generateScoredPhrases(list, args.minKeywordFrequency).phrases)
         [] impl = "index" ->
              rankPhrasesIndex(generateCandidateKeywordScores(list,
                  calculateWordScores(list), args.minKeywordFrequency))
         [] impl = "index2" ->
              rankPhrasesIndex(generateCandidateKeywordScoresIndex2(list,
                  calculateWordScoresIndex2(list), args.minKeywordFrequency))

\* C9: with a language code that has no entry in the stopword table the call
\* completes normally and returns what the pipeline yields with the caller's
\* additional stopwords as the only stopwords.
C9_UnknownLanguage ==
    (pc = "done" /\ args.language \notin DOMAIN isoStopWordSetTable) =>
        /\ ~threw
        /\ result = SelectSeq(RankedWith(args.additionalStopWordSet.value),
                       LAMBDA k : HasAllowedTag(resolvePosAllowedSet(args.posAllowedSet), k))

\* C10: a call with minCharLength <= 0 ends as the call with minCharLength = 0
\* does, and a call with minKeywordFrequency <= 0 as the call with
\* minKeywordFrequency = 1, all other arguments the same.
C10_ClampedOptions ==
    pc = "done" =>
        /\ args.minCharLength <= 0 => Outcome = Run([args EXCEPT !.minCharLength = 0])
        /\ args.minKeywordFrequency <= 0 =>
              Outcome = Run([args EXCEPT !.minKeywordFrequency = 1])

\* C10 witness: a call with a negative minCharLength and a zero
\* minKeywordFrequency returned phrases
C10_Witness ==
    /\ Returned
    /\ args.minCharLength < 0 /\ args.minKeywordFrequency <= 0
    /\ result # <<>>

\* C11: every returned string is one of the phrases of the phrase list the
\* segmentation built for the text, and the ranked list holds exactly those
\* phrases (scoring, ranking and the role filter alter no phrase string).
C11_ReturnedArePhrases ==
    /\ (pc \in {"ranked", "done"} /\ ~threw) =>
           Range(keywordsList) \subseteq Range(phraseList)
    /\ Returned => \A i \in 1..Len(result) : result[i] \in Range(phraseList)

\* C11 witness: a call returned some phrases of its phrase list and dropped
\* another
C11_Witness ==
    /\ Returned /\ result # <<>>
    /\ \E p \in Range(phraseList) : p \notin Range(result)

\* what call c returned, or that it threw
CallOutcome(c) == [threw |-> calls[c].threw, result |-> calls[c].result]

\* C12: two calls with identical text and options end identically (the same
\* list in the same order), whatever calls ran before them in the realm.
C12_Determinism ==
    \A c, d \in CallIds :
        (calls[c].pc = "done" /\ calls[d].pc = "done" /\ calls[c].args = calls[d].args)
        => CallOutcome(c) = CallOutcome(d)

\* stricter values of the three numeric options
RaisedMinCharLengths == {1, 3}
RaisedMinKeywordFrequencies == {2, 3}
LoweredMaxWordsLengths == {0, 1}

\* the call with the stricter argument object a returns, and its list is not
\* longer than the list of the call at hand
NotLonger(a) ==
    LET stricter == Run(a)
    IN ~stricter.threw /\ Len(stricter.result) <= Len(result)

\* C13: with the text and the other options fixed, a higher minCharLength, a
\* higher minKeywordFrequency or a lower maxWordsLength never gives a longer
\* returned list.
C13_MonotonicFiltering ==
    Returned =>
        /\ \A m \in RaisedMinCharLengths :
              m >= args.minCharLength => NotLonger([args EXCEPT !.minCharLength = m])
        /\ \A k \in RaisedMinKeywordFrequencies :
              k >= args.minKeywordFrequency =>
                  NotLonger([args EXCEPT !.minKeywordFrequency = k])
        /\ \A w \in LoweredMaxWordsLengths :
              w <= args.maxWordsLength => NotLonger([args EXCEPT !.maxWordsLength = w])

\* the call with the stricter argument object a returns a shorter list
Shorter(a) == Len(Run(a).result) < Len(result)

\* C13 witness: a call of src/src/index.ts returned phrases, and for each of
\* the three options a stricter value makes the list shorter
C13_Witness ==
    /\ Returned /\ impl = "index" /\ result # <<>>
    /\ \E m \in RaisedMinCharLengths :
          m > args.minCharLength /\ Shorter([args EXCEPT !.minCharLength = m])
    /\ \E k \in RaisedMinKeywordFrequencies :
          k > args.minKeywordFrequency /\ Shorter([args EXCEPT !.minKeywordFrequency = k])
    /\ \E w \in LoweredMaxWordsLengths :
          w < args.maxWordsLength /\ Shorter([args EXCEPT !.maxWordsLength = w])

\* C14: with the statements of the calls interleaved in any order, every
\* call ends as it ends when it runs alone.
C14_ConcurrentCallsIsolated ==
    \A c \in CallIds :
        calls[c].pc = "done" => CallOutcome(c) = extractWithRakePos(calls[c].args)

\* the language's stopwords united with the caller's additions
CombinedStopWords ==
    (IF args.language \in DOMAIN isoStopWordSetTable
     THEN isoStopWordSetTable[args.language] ELSE {})
    \cup args.additionalStopWordSet.value

\* C15: no returned string is a member of the combined stopword set, with
\* or without additional stopwords.
C15_StopwordsExcluded ==
    Returned => \A i \in 1..Len(result) : result[i] \notin CombinedStopWords

\* C15 witness: the text holds a stopword of the language and a stopword of
\* the caller that has an allowed tag, and the call returned other phrases
C15_Witness ==
    /\ Returned /\ result # <<>>
    /\ \E w \in Range(rawPhraseList(args.text)) :
          w \in isoStopWordSetTable[args.language]
    /\ \E w \in Range(rawPhraseList(args.text)) :
          /\ w \in args.additionalStopWordSet.value
          /\ HasAllowedTag(resolvePosAllowedSet(args.posAllowedSet), w)

\* number of positions of s that hold a character of class
CountChars(s, class) == Cardinality({i \in 1..Len(s) : s[i] \in class})

\* at least one letter, and not more digits than letters
AlphaDigitAcceptable(p) ==
    CountChars(p, Letters) >= 1 /\ CountChars(p, Digits) <= CountChars(p, Letters)

Scored == pc \in {"scored", "ranked", "done"} /\ ~threw

\* the scoring words of the i-th phrase of the phrase list
ScoringWords(i) == separateWords(phraseList[i], 0)

\* over the phrases i..Len(phraseList): the number of word occurrences of w
RECURSIVE WordOccurrences(_, _)
WordOccurrences(w, i) ==
    IF i > Len(phraseList) THEN 0
    ELSE Count(ScoringWords(i), w) + WordOccurrences(w, i + 1)

\* over the same occurrences: the sum of (number of scoring words of the
\* phrase - 1)
RECURSIVE WordDegree(_, _)
WordDegree(w, i) ==
    IF i > Len(phraseList) THEN 0
    ELSE Count(ScoringWords(i), w) * (Len(ScoringWords(i)) - 1) + WordDegree(w, i + 1)

\* C17: after generateScoredPhrases, the keywords map holds exactly the
\* scoring words of the phrase list; a word's frequency is the number of its
\* occurrences (at least 1), its degree the sum over them of (words of the
\* phrase - 1), and score * frequency = degree.
C17_WordStatistics ==
    (impl = "part_001" /\ Scored) =>
        /\ DOMAIN keywords = UNION {Range(ScoringWords(i)) : i \in 1..Len(phraseList)}
        /\ \A w \in DOMAIN keywords :
              /\ keywords[w].frequency >= 1
              /\ keywords[w].frequency = WordOccurrences(w, 1)
              /\ keywords[w].degree = WordDegree(w, 1)
              /\ keywords[w].score[1] * keywords[w].frequency
                    = keywords[w].degree * keywords[w].score[2]

\* C17 witness: a word with two occurrences and a positive degree
C17_Witness ==
    /\ impl = "part_001" /\ Scored
    /\ \E w \in DOMAIN keywords : keywords[w].frequency >= 2 /\ keywords[w].degree >= 1

\* the sum of the word scores over the word occurrences words[1..n]
RECURSIVE OccurrenceScore(_, _)
OccurrenceScore(words, n) ==
    IF n = 0 THEN RatZero
    ELSE RatAdd(OccurrenceScore(words, n - 1), keywords[words[n]].score)

PhrasePieces(p) ==
    LET pieces == split(p, DEFAULT_WORD_DELIMITERS)
    IN {toLowerCase(trim(pieces[i])) : i \in 1..Len(pieces)} \ {<<>>}

OnlyDigits(w) == \A i \in 1..Len(w) : w[i] \in Digits

\* C19: a word of a phrase is left out of the scoring words exactly when it
\* consists of digits only; every other word has word statistics.
C19_NumericWords ==
    Scored =>
        \A p \in Range(phraseList) :
            \A w \in PhrasePieces(p) : (w \in DOMAIN keywords) <=> ~OnlyDigits(w)

\* s without repeats, each element at the place of its first occurrence
RECURSIVE DistinctInOrder(_)
DistinctInOrder(s) ==
    IF s = <<>> THEN <<>>
    ELSE LET front == DistinctInOrder(SubSeq(s, 1, Len(s) - 1))
         IN IF s[Len(s)] \in Range(front) THEN front ELSE Append(front, s[Len(s)])

whitespaceWords(phrase) == split(phrase, Whitespace)

====
